---- MODULE Spec2Model ----
(***************************************************************************)
(* FlashNet screen data transmitter (pc_sender.js): flashnetSend builds a  *)
(* queue of pulse widths from the data bytes and a setInterval callback    *)
(* plays the queue on the background colour of a DOM element.  The        *)
(* receiver (pc_receiver.py) is not part of the sources; the reference     *)
(* decoder below follows the design document.                              *)
(***************************************************************************)
EXTENDS Integers, Sequences, FiniteSets, TLC

\* ------------------------------------------------------------------ bounds

\* Number of flashnetSend calls a behaviour may make.
NumTx == 2

\* Samples the receiver takes per transmitter tick (zero jitter).
SamplesPerTick == 1

\* README "Maximum packet: 70 bytes".
MaxPacket == 70

Tx == 1..NumTx

\* ------------------------------------------------------------------ inputs

Hello == <<72, 101, 108, 108, 111>>

\* Every single bit, no bit, all bits, and the bytes of the README example.
ByteSamples == {0, 1, 2, 4, 8, 16, 32, 64, 128, 255, 72, 101}

Repeat(b, n) == [k \in 1..n |-> b]

\* Payloads of one call: empty, every byte value alone, pairs of sample
\* bytes whose sum wraps past 255, the README example, and payloads of the
\* documented maximum length and one byte more.
Payloads ==
    {<<>>} \cup {<<b>> : b \in 0..255}
           \cup {<<a, b>> : a \in {1, 128, 255}, b \in {0, 128, 255}}
           \cup {Hello, Repeat(72, MaxPacket), Repeat(72, MaxPacket + 1)}

\* Payloads of the calls of a sequence of transmissions.
SmallPayloads == {<<>>, <<0>>, <<128>>, <<255>>, <<1, 255>>, <<72, 101>>}

\* ----------------------------------------------------------------- encoder

\* JavaScript a & b on non-negative integers.
RECURSIVE BitAnd(_, _)
BitAnd(a, b) ==
    IF a = 0 \/ b = 0 THEN 0
    ELSE (a % 2) * (b % 2) + 2 * BitAnd(a \div 2, b \div 2)

\* The 8 sync pulses of the protocol overview instead of 14.
InitQueue_eightSync == <<1, 1, 1, 1, 1, 1, 1, 1, 3>>

\* let queue = [1 x 14, 3]
InitQueue == <<1, 1, 1, 1, 1, 1, 1, 1, 1, 1, 1, 1, 1, 1, 3>>

\* The two widths exchanged.
PulseOf_inverted(b, mask) == IF BitAnd(b, mask) # 0 THEN 1 ELSE 2

\* queue.push((b & mask) ? 2 : 1)
PulseOf(b, mask) == IF BitAnd(b, mask) # 0 THEN 2 ELSE 1

\* for (let mask = 0x80; mask; mask >>= 1) queue.push(...)
RECURSIVE pushBits(_, _, _)
pushBits(q, b, mask) ==
    IF mask = 0 THEN q
    ELSE pushBits(Append(q, PulseOf(b, mask)), b, mask \div 2)

RECURSIVE pushBitsLsb(_, _, _)
pushBitsLsb(q, b, mask) ==
    IF mask > 128 THEN q
    ELSE pushBitsLsb(Append(q, PulseOf(b, mask)), b, mask * 2)

encode_lsbFirst(st, b) ==
    [checksum |-> st.checksum + b, queue |-> pushBitsLsb(st.queue, b, 1)]

encode_noSum(st, b) ==
    [checksum |-> st.checksum, queue |-> pushBits(st.queue, b, 128)]

\* encode(b): st is the closure's (checksum, queue)
encode(st, b) ==
    [checksum |-> st.checksum + b, queue |-> pushBits(st.queue, b, 128)]

\* data.forEach(encode) over the elements lo..hi in index order.  The range
\* is split in halves and the first half is evaluated (the test on its queue)
\* before the second is entered, which keeps the evaluation shallow.
RECURSIVE forEach(_, _, _, _)
forEach(d, lo, hi, st) ==
    IF lo > hi THEN st
    ELSE IF lo = hi THEN encode(st, d[lo])
    ELSE LET mid == (lo + hi) \div 2
             left == forEach(d, lo, mid, st)
         IN  IF Len(left.queue) >= 0 THEN forEach(d, mid + 1, hi, left)
             ELSE left

checksumByte_low7(c) == BitAnd(c, 127)

\* checksum & 0xff
checksumByte(c) == BitAnd(c, 255)

\* The body of flashnetSend up to queue.push(4), started with checksum c0
\* and queue q0.
BuildFrom(d, c0, q0) ==
    LET s1 == forEach(d, 1, Len(d), [checksum |-> c0, queue |-> q0])
        s2 == encode(s1, checksumByte(s1.checksum))
    IN  [checksum |-> s2.checksum, queue |-> Append(s2.queue, 4)]

\* state = true in place of state = !state
Not_stuck(s) == 1

\* !state, with true/false written 1/0
Not(s) == IF s = 0 THEN 1 ELSE 0

\* The two colours exchanged, as the comment on state (0=dark) would have it.
ColourOf_swapped(s) == IF s # 0 THEN "#eee" ELSE "#888"

\* state ? "#888" : "#eee"
ColourOf(s) == IF s # 0 THEN "#888" ELSE "#eee"

Neutral == "#ccc"

\* ------------------------------------------------------------------- state

VARIABLES
    data,       \* data[i]: the caller's array that call i is given
    queue,      \* queue[i]: remaining pulse widths of call i
    state,      \* state[i]: flash state of call i (0, then 1/0 for true/false)
    checksum,   \* checksum[i]: the checksum accumulator of call i
    timer,      \* timer[i]: "none" before the call, "armed", "cleared"
    elem,       \* elem.style.backgroundColor ("" while never written)
    built,      \* built[i]: the queue as it was when call i returned
    ticks,      \* ticks[i]: callback invocations of call i so far
    toggles,    \* toggles[i]: dark/light writes of call i so far
    toggleAt,   \* toggleAt[i]: the tick of call i that made its latest toggle
    neutrals,   \* neutrals[i]: neutral writes of call i so far
    dec,        \* the receiver's decoder state
    event,      \* what the latest process(sample) returned
    pending     \* samples still to take before the next tick

txVars == <<data, queue, state, checksum, timer, elem, built, ticks, toggles,
            toggleAt, neutrals>>
rxVars == <<dec, event>>
vars == <<data, queue, state, checksum, timer, elem, built, ticks, toggles,
          toggleAt, neutrals, dec, event, pending>>

\* ----------------------------------------------------------------- decoder

\* Hysteresis thresholds around the neutral level 0xcc.
Low == 170
High == 221

\* Consistent sync durations needed to lock.
MinSync == 8

\* A frame is abandoned after this many base units without an edge.
TimeoutUnits == 8

\* Light intensity of a background colour: the grey level of its hex digits;
\* an element never written shows the page's white.
Intensity(c) ==
    CASE c = "#888" -> 136
      [] c = "#eee" -> 238
      [] c = "#ccc" -> 204
      [] OTHER -> 255

Abs(x) == IF x < 0 THEN -x ELSE x

\* Within +-40% of a base unit of k base units.
Close(n, k, base) == 10 * Abs(n - k * base) <= 4 * base

\* Nearest of {1,2,3,4} x base within tolerance; 0 when none.
Classify(n, base) ==
    IF \E k \in 1..4 : Close(n, k, base)
    THEN CHOOSE k \in 1..4 : Close(n, k, base)
    ELSE 0

\* s[lo] + ... + s[hi], by halves
RECURSIVE SumRange(_, _, _)
SumRange(s, lo, hi) ==
    IF lo > hi THEN 0
    ELSE IF lo = hi THEN s[lo]
    ELSE LET mid == (lo + hi) \div 2
         IN  SumRange(s, lo, mid) + SumRange(s, mid + 1, hi)

SumSeq(s) == SumRange(s, 1, Len(s))

NoEvent == [kind |-> "NONE", payload |-> <<>>]

Reset(d) ==
    [d EXCEPT !.st = "SEEKING_SYNC", !.run = 0, !.sum = 0, !.ref = 0,
              !.base = 0, !.bits = 0, !.acc = 0, !.buf = <<>>]

\* END: the last buffered byte is the checksum, the bytes before it the payload.
OnEnd(d) ==
    IF d.bits # 0 \/ d.buf = <<>> THEN [dec |-> Reset(d), event |-> NoEvent]
    ELSE LET payload == SubSeq(d.buf, 1, Len(d.buf) - 1)
             actual == d.buf[Len(d.buf)]
         IN  [dec |-> Reset(d),
              event |-> [kind |-> IF actual = SumSeq(payload) % 256
                                  THEN "PACKET_VALID" ELSE "PACKET_INVALID",
                         payload |-> payload]]

\* A data bit: assembled most significant bit first, a byte every 8 bits.
OnBit(d, bit) ==
    LET acc == 2 * d.acc + bit
    IN  IF d.bits + 1 < 8
        THEN [dec |-> [d EXCEPT !.acc = acc, !.bits = d.bits + 1],
              event |-> NoEvent]
        ELSE IF Len(d.buf) + 1 > MaxPacket + 1
        THEN [dec |-> Reset(d), event |-> NoEvent]
        ELSE [dec |-> [d EXCEPT !.acc = 0, !.bits = 0, !.buf = Append(d.buf, acc)],
              event |-> [kind |-> "BYTE_RECEIVED", payload |-> <<acc>>]]

\* One edge-to-edge duration of n samples.
OnPulse(d, n) ==
    CASE d.st = "SEEKING_SYNC" ->
           LET cont == d.run > 0 /\ Close(n, 1, d.ref)
               run == IF cont THEN d.run + 1 ELSE 1
               sum == IF cont THEN d.sum + n ELSE n
               ref == IF cont THEN d.ref ELSE n
           IN  IF run >= MinSync
               THEN [dec |-> [d EXCEPT !.st = "SYNC_LOCKED", !.base = sum \div run,
                                      !.run = 0, !.sum = 0, !.ref = 0],
                     event |-> [kind |-> "SYNC_ACQUIRED", payload |-> <<>>]]
               ELSE [dec |-> [d EXCEPT !.run = run, !.sum = sum, !.ref = ref],
                     event |-> NoEvent]
      [] d.st = "SYNC_LOCKED" ->
           LET k == Classify(n, d.base)
           IN  IF k = 1 THEN [dec |-> d, event |-> NoEvent]
               ELSE IF k = 3
               THEN [dec |-> [d EXCEPT !.st = "RECEIVING_DATA", !.bits = 0,
                                      !.acc = 0, !.buf = <<>>],
                     event |-> NoEvent]
               ELSE [dec |-> Reset(d), event |-> NoEvent]
      [] OTHER ->
           LET k == Classify(n, d.base)
           IN  IF k = 1 THEN OnBit(d, 0)
               ELSE IF k = 2 THEN OnBit(d, 1)
               ELSE IF k = 4 THEN OnEnd(d)
               ELSE [dec |-> Reset(d), event |-> NoEvent]

\* process(sample): edge detection with hysteresis, then the pulse.
process(d, s) ==
    LET n == d.since + 1
        rising == d.level = "dark" /\ s > High
        falling == d.level = "light" /\ s < Low
    IN  IF rising \/ falling
        THEN OnPulse([d EXCEPT !.level = IF rising THEN "light" ELSE "dark",
                              !.since = 0], n)
        ELSE IF d.st # "SEEKING_SYNC" /\ n > TimeoutUnits * d.base
        THEN [dec |-> Reset([d EXCEPT !.since = n]), event |-> NoEvent]
        ELSE [dec |-> [d EXCEPT !.since = n], event |-> NoEvent]

InitDec(level) ==
    [st |-> "SEEKING_SYNC", level |-> level, since |-> 0, run |-> 0, sum |-> 0,
     ref |-> 0, base |-> 0, bits |-> 0, acc |-> 0, buf |-> <<>>]

\* ------------------------------------------------------------- transmitter

\* The state before any call; call i will be given an array drawn from P[i].
InitWith(P) ==
    /\ data \in [Tx -> UNION {P[i] : i \in Tx}]
    /\ \A i \in Tx : data[i] \in P[i]
    /\ queue = [i \in Tx |-> <<>>]
    /\ state = [i \in Tx |-> 0]
    /\ checksum = [i \in Tx |-> 0]
    /\ timer = [i \in Tx |-> "none"]
    /\ elem \in {"", "#ccc", "#888", "#eee"}
    /\ built = [i \in Tx |-> <<>>]
    /\ ticks = [i \in Tx |-> 0]
    /\ toggles = [i \in Tx |-> 0]
    /\ toggleAt = [i \in Tx |-> 0]
    /\ neutrals = [i \in Tx |-> 0]
    /\ \E level \in {"dark", "light"} : dec = InitDec(level)
    /\ event = NoEvent
    /\ pending = 0

\* Call i of flashnetSend on data[i], its locals starting at checksum c0,
\* queue q0 and state s0, up to the return after setInterval.
flashnetSendFrom(i, c0, q0, s0) ==
    /\ timer[i] = "none"
    /\ LET r == BuildFrom(data[i], c0, q0)
       IN  /\ queue' = [queue EXCEPT ![i] = r.queue]
           /\ built' = [built EXCEPT ![i] = r.queue]
           /\ checksum' = [checksum EXCEPT ![i] = r.checksum]
    /\ state' = [state EXCEPT ![i] = s0]
    /\ timer' = [timer EXCEPT ![i] = "armed"]
    /\ UNCHANGED <<data, elem, ticks, toggles, toggleAt, neutrals>>

\* The locals of an earlier call kept by the next one.
flashnetSend_shared(i) ==
    IF i > 1
    THEN flashnetSendFrom(i, checksum[i - 1], InitQueue, state[i - 1])
    ELSE flashnetSendFrom(i, 0, InitQueue, 0)

\* The first pulse shown before returning.
flashnetSend_eager(i) ==
    /\ timer[i] = "none"
    /\ LET r == BuildFrom(data[i], 0, InitQueue)
       IN  /\ queue' = [queue EXCEPT ![i] = Tail(r.queue)]
           /\ built' = [built EXCEPT ![i] = r.queue]
           /\ checksum' = [checksum EXCEPT ![i] = r.checksum]
    /\ state' = [state EXCEPT ![i] = 1]
    /\ timer' = [timer EXCEPT ![i] = "armed"]
    /\ elem' = ColourOf(1)
    /\ toggles' = [toggles EXCEPT ![i] = 1]
    /\ UNCHANGED <<data, ticks, toggleAt, neutrals>>

\* queue declared without let: one global queue, which every call replaces
\* for all the callbacks that read it.
flashnetSend_globalQueue(i) ==
    /\ timer[i] = "none"
    /\ LET r == BuildFrom(data[i], 0, InitQueue)
       IN  /\ queue' = [j \in Tx |-> IF j = i \/ timer[j] = "armed"
                                      THEN r.queue ELSE queue[j]]
           /\ built' = [built EXCEPT ![i] = r.queue]
           /\ checksum' = [checksum EXCEPT ![i] = r.checksum]
    /\ state' = [state EXCEPT ![i] = 0]
    /\ timer' = [timer EXCEPT ![i] = "armed"]
    /\ UNCHANGED <<data, elem, ticks, toggles, toggleAt, neutrals>>

\* flashnetSend(pulsewidth, data, elem)
flashnetSend(i) == flashnetSendFrom(i, 0, InitQueue, 0)

\* The callback with the pop test written == 1 on the count before decrement
\* replaced by a pop on every tick.
Tick_popAlways(i) ==
    /\ timer[i] = "armed"
    /\ ticks' = [ticks EXCEPT ![i] = @ + 1]
    /\ IF Len(queue[i]) = 0
       THEN /\ elem' = Neutral
            /\ timer' = [timer EXCEPT ![i] = "cleared"]
            /\ neutrals' = [neutrals EXCEPT ![i] = @ + 1]
            /\ UNCHANGED <<queue, state, toggles, toggleAt>>
       ELSE /\ queue' = [queue EXCEPT ![i] = Tail(@)]
            /\ state' = [state EXCEPT ![i] = Not(@)]
            /\ elem' = ColourOf(Not(state[i]))
            /\ toggles' = [toggles EXCEPT ![i] = @ + 1]
            /\ toggleAt' = [toggleAt EXCEPT ![i] = ticks[i] + 1]
            /\ UNCHANGED <<timer, neutrals>>
    /\ UNCHANGED <<data, checksum, built>>

\* The callback clearing the timer on the tick that pops the last pulse.
Tick_stopEarly(i) ==
    /\ timer[i] = "armed"
    /\ Len(queue[i]) > 0
    /\ ticks' = [ticks EXCEPT ![i] = @ + 1]
    /\ LET h == queue[i][1] - 1
       IN  IF h <= 0
           THEN /\ queue' = [queue EXCEPT ![i] = Tail(@)]
                /\ state' = [state EXCEPT ![i] = Not(@)]
                /\ toggles' = [toggles EXCEPT ![i] = @ + 1]
                /\ toggleAt' = [toggleAt EXCEPT ![i] = ticks[i] + 1]
                /\ IF Len(queue[i]) = 1
                   THEN /\ elem' = Neutral
                        /\ timer' = [timer EXCEPT ![i] = "cleared"]
                        /\ neutrals' = [neutrals EXCEPT ![i] = @ + 1]
                   ELSE /\ elem' = ColourOf(Not(state[i]))
                        /\ UNCHANGED <<timer, neutrals>>
           ELSE /\ queue' = [queue EXCEPT ![i][1] = h]
                /\ UNCHANGED <<state, elem, toggles, toggleAt, timer, neutrals>>
    /\ UNCHANGED <<data, checksum, built>>

\* The callback flipping and writing on every tick, popping only at zero.
Tick_flipEveryTick(i) ==
    /\ timer[i] = "armed"
    /\ ticks' = [ticks EXCEPT ![i] = @ + 1]
    /\ IF Len(queue[i]) = 0
       THEN /\ elem' = Neutral
            /\ timer' = [timer EXCEPT ![i] = "cleared"]
            /\ neutrals' = [neutrals EXCEPT ![i] = @ + 1]
            /\ UNCHANGED <<queue, state, toggles, toggleAt>>
       ELSE /\ LET h == queue[i][1] - 1
               IN  queue' = [queue EXCEPT ![i] = IF h <= 0 THEN Tail(@)
                                                ELSE [@ EXCEPT ![1] = h]]
            /\ state' = [state EXCEPT ![i] = Not(@)]
            /\ elem' = ColourOf(Not(state[i]))
            /\ toggles' = [toggles EXCEPT ![i] = @ + 1]
            /\ toggleAt' = [toggleAt EXCEPT ![i] = ticks[i] + 1]
            /\ UNCHANGED <<timer, neutrals>>
    /\ UNCHANGED <<data, checksum, built>>

\* The callback without clearInterval: it keeps running on the empty queue.
Tick_noClear(i) ==
    /\ timer[i] = "armed"
    /\ ticks' = [ticks EXCEPT ![i] = @ + 1]
    /\ IF Len(queue[i]) = 0
       THEN /\ elem' = Neutral
            /\ neutrals' = [neutrals EXCEPT ![i] = @ + 1]
            /\ UNCHANGED <<queue, state, toggles, toggleAt, timer>>
       ELSE LET h == queue[i][1] - 1
            IN  IF h <= 0
                THEN /\ queue' = [queue EXCEPT ![i] = Tail(@)]
                     /\ state' = [state EXCEPT ![i] = Not(@)]
                     /\ elem' = ColourOf(Not(state[i]))
                     /\ toggles' = [toggles EXCEPT ![i] = @ + 1]
                     /\ toggleAt' = [toggleAt EXCEPT ![i] = ticks[i] + 1]
                     /\ UNCHANGED <<timer, neutrals>>
                ELSE /\ queue' = [queue EXCEPT ![i][1] = h]
                     /\ UNCHANGED <<state, elem, toggles, toggleAt, timer,
                                    neutrals>>
    /\ UNCHANGED <<data, checksum, built>>

\* state declared without let: one global flash state for all the callbacks.
Tick_sharedState(i) ==
    /\ timer[i] = "armed"
    /\ ticks' = [ticks EXCEPT ![i] = @ + 1]
    /\ IF Len(queue[i]) = 0
       THEN /\ elem' = Neutral
            /\ timer' = [timer EXCEPT ![i] = "cleared"]
            /\ neutrals' = [neutrals EXCEPT ![i] = @ + 1]
            /\ UNCHANGED <<queue, state, toggles, toggleAt>>
       ELSE LET h == queue[i][1] - 1
            IN  IF h <= 0
                THEN /\ queue' = [queue EXCEPT ![i] = Tail(@)]
                     /\ state' = [j \in Tx |-> Not(state[i])]
                     /\ elem' = ColourOf(Not(state[i]))
                     /\ toggles' = [toggles EXCEPT ![i] = @ + 1]
                     /\ toggleAt' = [toggleAt EXCEPT ![i] = ticks[i] + 1]
                     /\ UNCHANGED <<timer, neutrals>>
                ELSE /\ queue' = [queue EXCEPT ![i][1] = h]
                     /\ UNCHANGED <<state, elem, toggles, toggleAt, timer,
                                    neutrals>>
    /\ UNCHANGED <<data, checksum, built>>

\* One invocation of the setInterval callback of call i.
Tick(i) ==
    /\ timer[i] = "armed"
    /\ ticks' = [ticks EXCEPT ![i] = @ + 1]
    /\ IF Len(queue[i]) = 0
       THEN /\ elem' = Neutral
            /\ timer' = [timer EXCEPT ![i] = "cleared"]
            /\ neutrals' = [neutrals EXCEPT ![i] = @ + 1]
            /\ UNCHANGED <<queue, state, toggles, toggleAt>>
       ELSE LET h == queue[i][1] - 1
            IN  IF h <= 0
                THEN /\ queue' = [queue EXCEPT ![i] = Tail(@)]
                     /\ state' = [state EXCEPT ![i] = Not(@)]
                     /\ elem' = ColourOf(Not(state[i]))
                     /\ toggles' = [toggles EXCEPT ![i] = @ + 1]
                     /\ toggleAt' = [toggleAt EXCEPT ![i] = ticks[i] + 1]
                     /\ UNCHANGED <<timer, neutrals>>
                ELSE /\ queue' = [queue EXCEPT ![i][1] = h]
                     /\ UNCHANGED <<state, elem, toggles, toggleAt, timer,
                                    neutrals>>
    /\ UNCHANGED <<data, checksum, built>>

\* ------------------------------------------------------------ the system

\* The owner serialises transmissions: call i is made once the calls before
\* it have been made and none is still running.
Serial(i) ==
    /\ \A j \in Tx : j < i => timer[j] = "cleared"
    /\ pending = 0

\* A call of flashnetSend by the owning component.
Call(i) ==
    /\ Serial(i)
    /\ flashnetSend(i)
    /\ UNCHANGED <<dec, event, pending>>

\* A timer tick; the sampler then takes SamplesPerTick samples before the
\* next one.
TimerTick(i) ==
    /\ pending = 0
    /\ Tick(i)
    /\ pending' = SamplesPerTick
    /\ UNCHANGED <<dec, event>>

\* The host loop samples the element and feeds the decoder.
Sample ==
    /\ pending > 0
    /\ pending' = pending - 1
    /\ LET r == process(dec, Intensity(elem))
       IN  dec' = r.dec /\ event' = r.event
    /\ UNCHANGED txVars

\* One transmission of any payload.
Init == InitWith([i \in Tx |-> IF i = 1 THEN Payloads ELSE {<<>>}])

Next ==
    \/ Call(1)
    \/ \E i \in Tx : TimerTick(i)
    \/ Sample

Spec == Init /\ [][Next]_vars

Ticking == \E i \in Tx : TimerTick(i)

FairSpec == Init /\ [][Next]_vars /\ WF_vars(Ticking) /\ WF_vars(Sample)

\* A sequence of transmissions, one after the other.
InitSerial == InitWith([i \in Tx |-> SmallPayloads])

NextSerial ==
    \/ \E i \in Tx : Call(i)
    \/ \E i \in Tx : TimerTick(i)
    \/ Sample

SpecSerial == InitSerial /\ [][NextSerial]_vars

\* Two transmissions on the same element that may overlap: the second call
\* can come at any moment after the first, and the two timers tick in any
\* order.  The receiver is left out (it stays idle).
OverlapTx == {1, 2}

OverlapPayloads == {<<>>, <<255>>, <<72, 101>>}

InitOverlap ==
    /\ InitWith([i \in Tx |-> IF i \in OverlapTx THEN OverlapPayloads
                                ELSE {<<>>}])
    /\ dec = InitDec("dark")

\* A call made whether or not an earlier transmission is still running.
CallAny(i) ==
    /\ \A j \in OverlapTx : j < i => timer[j] # "none"
    /\ flashnetSend(i)
    /\ UNCHANGED <<dec, event, pending>>

\* A tick of the timer of call i, the receiver not sampling.
TickAny(i) ==
    /\ Tick(i)
    /\ UNCHANGED <<dec, event, pending>>

NextOverlap ==
    \/ \E i \in OverlapTx : CallAny(i)
    \/ \E i \in OverlapTx : TickAny(i)

SpecOverlap == InitOverlap /\ [][NextOverlap]_vars

FairSpecOverlap ==
    InitOverlap /\ [][NextOverlap]_vars
        /\ \A i \in OverlapTx : WF_vars(TickAny(i))

\* ------------------------------------------------------------ properties

Called(i) == timer[i] # "none"

RECURSIVE Pow2(_)
Pow2(n) == IF n = 0 THEN 1 ELSE 2 * Pow2(n - 1)

\* Bit n of byte b (bit 0 the least significant), by division.
BitSet(b, n) == (b \div Pow2(n)) % 2 = 1

\* The pulse width a frame shows for bit n of b.
WidthOfBit(b, n) == IF BitSet(b, n) THEN 2 ELSE 1

\* s[1] + ... + s[k]
SumTo(s, k) == SumRange(s, 1, k)

\* The sum of all of s.
Sum(s) == SumRange(s, 1, Len(s))

\* Call i has just returned: its queue is the queue flashnetSend built.
Returned(i) == timer[i] = "armed" /\ ticks[i] = 0

\* The frame of the design document for payload d: 14 SYNC, START, the bits
\* of every byte and of the checksum most significant first, END.
ExpectedFrame(d) ==
    LET bytes == d \o <<Sum(d) % 256>>
    IN  [k \in 1..14 |-> 1] \o <<3>>
        \o [k \in 1..(8 * Len(bytes)) |->
               WidthOfBit(bytes[((k - 1) \div 8) + 1], 7 - ((k - 1) % 8))]
        \o <<4>>

\* The byte spelled by the 8 pulses of q that start at index from.
ByteAt(q, from) ==
    SumTo([j \in 1..8 |-> (q[from + j - 1] - 1) * Pow2(8 - j)], 8)

\* The checksum byte a built queue carries: the 8 pulses before END.
EmbeddedChecksum(q) == ByteAt(q, Len(q) - 8)

\* d with bit n of its k-th byte flipped.
FlipBit(d, k, n) ==
    [d EXCEPT ![k] = IF BitSet(d[k], n) THEN d[k] - Pow2(n) ELSE d[k] + Pow2(n)]

\* C1: for every payload of length 0..70 the queue flashnetSend builds is
\* 14 SYNC (1), START (3), 8 bit pulses per payload byte in order, 8 checksum
\* bit pulses, END (4): 8*len+24 entries, the only 3 at index 14 (counted
\* from 0) and the only 4 last.
C1_FrameLayout ==
    \A i \in Tx :
        (Returned(i) /\ Len(data[i]) <= MaxPacket) =>
            /\ queue[i] = ExpectedFrame(data[i])
            /\ Len(queue[i]) = 8 * Len(data[i]) + 24
            /\ {k \in 1..Len(queue[i]) : queue[i][k] = 3} = {15}
            /\ {k \in 1..Len(queue[i]) : queue[i][k] = 4} = {Len(queue[i])}
            /\ (data[i] = <<>> =>
                    queue[i] = <<1, 1, 1, 1, 1, 1, 1, 1, 1, 1, 1, 1, 1, 1, 3,
                                 1, 1, 1, 1, 1, 1, 1, 1, 4>>)

C1_Witness ==
    \E i \in Tx :
        /\ Called(i) /\ data[i] = Hello /\ ticks[i] = 0
        /\ Len(queue[i]) = 64 /\ queue[i][15] = 3 /\ queue[i][64] = 4

\* C2: the checksum byte carried by the 8 pulses before END is
\* sum(payload) mod 256, although the accumulator itself has by then also
\* had that byte added to it.
C2_ChecksumByte ==
    \A i \in Tx :
        Returned(i) =>
            /\ EmbeddedChecksum(queue[i]) = Sum(data[i]) % 256
            /\ checksum[i] = Sum(data[i]) + (Sum(data[i]) % 256)

C2_Witness ==
    \E i \in Tx :
        /\ Returned(i) /\ data[i] = Hello
        /\ EmbeddedChecksum(queue[i]) = 244 /\ checksum[i] = 744

\* C3: a call with a payload of 71 bytes fails with PayloadTooLarge: it
\* builds no queue and starts no transmission.
C3_PayloadTooLarge ==
    \A i \in Tx :
        Len(data[i]) > MaxPacket =>
            /\ timer[i] = "none"
            /\ built[i] = <<>>
            /\ queue[i] = <<>>
            /\ toggles[i] = 0

\* C4: round trip.  For every payload of length 0..70 the reference decoder,
\* sampling the element after every tick, reports PACKET_VALID with the
\* payload on the sample that follows the last toggle, and never reports
\* PACKET_INVALID during the transmission.
C4_RoundTrip ==
    \A i \in Tx :
        (timer[i] = "armed" /\ Len(data[i]) <= MaxPacket) =>
            /\ event.kind # "PACKET_INVALID"
            /\ (queue[i] = <<>> /\ pending = SamplesPerTick - 1) =>
                   event = [kind |-> "PACKET_VALID", payload |-> data[i]]

C4_Witness ==
    \E i \in Tx :
        /\ timer[i] = "armed" /\ queue[i] = <<>>
        /\ Len(data[i]) = MaxPacket
        /\ event = [kind |-> "PACKET_VALID", payload |-> data[i]]

\* C5: every byte passed to encode (the payload bytes and the checksum byte)
\* appends exactly 8 pulses, pulse j (0..7) of width 2 when bit 7-j of the
\* byte is set and of width 1 otherwise.
C5_MsbFirst ==
    \A i \in Tx :
        Returned(i) =>
            LET bytes == data[i] \o <<Sum(data[i]) % 256>>
            IN  /\ Len(queue[i]) = 15 + 8 * Len(bytes) + 1
                /\ \A k \in 1..Len(bytes), j \in 0..7 :
                       queue[i][15 + 8 * (k - 1) + j + 1] =
                           IF BitSet(bytes[k], 7 - j) THEN 2 ELSE 1

C5_Witness ==
    \E i \in Tx :
        /\ Returned(i) /\ data[i] = <<1>>
        /\ SubSeq(queue[i], 16, 23) = <<1, 1, 1, 1, 1, 1, 1, 2>>

\* C6: whatever single bit of whatever payload byte is flipped, the checksum
\* byte the encoder emitted for the original payload differs from the sum of
\* the flipped payload mod 256.
C6_BitFlipDetected ==
    \A i \in Tx :
        Returned(i) =>
            LET sent == EmbeddedChecksum(queue[i])
            IN  \A k \in 1..Len(data[i]), n \in 0..7 :
                    sent # Sum(FlipBit(data[i], k, n)) % 256

C6_Witness ==
    \E i \in Tx :
        /\ Returned(i) /\ data[i] = <<128>>
        /\ EmbeddedChecksum(queue[i]) = 128
        /\ Sum(FlipBit(data[i], 1, 7)) = 0

\* C7: a tick on a non-empty queue decrements the head count; it pops the
\* head, flips the state and writes the new colour exactly when the count
\* reaches zero.  So toggle k is made by tick widths[0]+...+widths[k-1] and
\* comes widths[k-1] ticks after the toggle before it.
C7_TickStep(i) ==
    (ticks'[i] = ticks[i] + 1 /\ queue[i] # <<>>) =>
        LET h == queue[i][1] - 1
        IN  /\ h >= 0
            /\ h = 0 =>
                   /\ queue'[i] = Tail(queue[i])
                   /\ state'[i] # state[i]
                   /\ elem' = ColourOf(state'[i])
                   /\ toggles'[i] = toggles[i] + 1
                   /\ ticks'[i] = SumTo(built[i], toggles'[i])
                   /\ ticks'[i] - toggleAt[i] = built[i][toggles'[i]]
                   /\ toggleAt'[i] = ticks'[i]
            /\ h > 0 =>
                   /\ queue'[i] = [queue[i] EXCEPT ![1] = h]
                   /\ state'[i] = state[i]
                   /\ elem' = elem
                   /\ toggles'[i] = toggles[i]
                   /\ toggleAt'[i] = toggleAt[i]

C7_ToggleTiming == [][\A i \in Tx : C7_TickStep(i)]_vars

C7_Witness ==
    \E i \in Tx :
        /\ toggles[i] = 15 /\ ticks[i] = 17 /\ toggleAt[i] = 17
        /\ elem = "#888"

\* C8: every transmission terminates.  The timer is cleared by tick number
\* (sum of the pulse widths)+1 and by no earlier tick; that tick finds the
\* queue empty, is the tick after the one that popped END, and writes the
\* neutral colour; with ticks delivered, the clearing does happen.
C8_ClearStep(i) ==
    (timer[i] = "armed" /\ timer'[i] = "cleared") =>
        /\ queue[i] = <<>>
        /\ toggles[i] = Len(built[i])
        /\ ticks[i] = toggleAt[i]
        /\ ticks'[i] = ticks[i] + 1
        /\ elem' = Neutral
        /\ neutrals'[i] = 1

C8_Terminates ==
    /\ [](\A i \in Tx :
            /\ timer[i] = "cleared" =>
                   /\ ticks[i] = SumTo(built[i], Len(built[i])) + 1
                   /\ queue[i] = <<>>
                   /\ neutrals[i] = 1
            /\ timer[i] = "armed" =>
                   /\ ticks[i] <= SumTo(built[i], Len(built[i]))
                   /\ neutrals[i] = 0
                   /\ (queue[i] = <<>> <=>
                           ticks[i] = SumTo(built[i], Len(built[i]))))
    /\ [][\A i \in Tx : C8_ClearStep(i)]_vars
    /\ \A i \in Tx : (timer[i] = "armed") ~> (timer[i] = "cleared")

C8_Witness ==
    \E i \in Tx :
        /\ timer[i] = "cleared" /\ data[i] = Hello
        /\ ticks[i] = 14 + 3 + (48 + 25) + 4 + 1
        /\ elem = Neutral

\* C9: encoding is deterministic and keeps nothing from call to call: two
\* calls given equal payloads build equal queues and end with equal
\* accumulators, every call starts in flash state 0 with its whole frame
\* queued, and no step changes a payload array.
C9_CallStep(i) ==
    (timer[i] = "none" /\ timer'[i] # "none") =>
        /\ state'[i] = 0
        /\ queue'[i] = ExpectedFrame(data[i])

C9_PureEncoding ==
    /\ [](\A i, j \in Tx :
            (Called(i) /\ Called(j) /\ data[i] = data[j]) =>
                /\ built[i] = built[j]
                /\ checksum[i] = checksum[j])
    /\ [][data' = data /\ \A i \in Tx : C9_CallStep(i)]_vars

C9_Witness ==
    \E i, j \in Tx :
        /\ i < j /\ timer[i] = "cleared" /\ Called(j)
        /\ data[i] = <<255>> /\ data[j] = <<255>>
        /\ built[i] = built[j] /\ checksum[j] = 510

\* C10: flashnetSend returns with the whole queue pending, the timer armed
\* and nothing written to the element; every write to the element is made
\* by a later timer tick.
C10_Return(i) ==
    (timer[i] = "none" /\ timer'[i] # "none") =>
        /\ timer'[i] = "armed"
        /\ ticks'[i] = 0
        /\ queue'[i] = built'[i]
        /\ Len(queue'[i]) = 8 * Len(data[i]) + 24
        /\ toggles'[i] = 0 /\ neutrals'[i] = 0
        /\ elem' = elem

C10_Asynchronous ==
    [][/\ \A i \in Tx : C10_Return(i)
       /\ (elem' # elem \/ toggles' # toggles \/ neutrals' # neutrals) =>
              \E i \in Tx : timer[i] = "armed" /\ ticks'[i] = ticks[i] + 1]_vars

C10_Witness ==
    \E i \in Tx :
        /\ timer[i] = "armed" /\ ticks[i] = 0 /\ toggles[i] = 0
        /\ Len(queue[i]) = 8 * Len(data[i]) + 24
        /\ Len(data[i]) > 0
        /\ elem \notin {"#888", "#eee"}

\* The pulse of call i now being shown: the head of its queue, counted from 1
\* in the queue as built.
Showing(i) == Len(built[i]) - Len(queue[i]) + 1

\* C11 as stated: while any queued pulse of a running transmission is being
\* shown, the first SYNC pulse included, the element is in a dark/light
\* state that this transmission wrote.
C11_EveryPulseShown ==
    \A i \in Tx :
        (timer[i] = "armed" /\ queue[i] # <<>>) =>
            /\ toggles[i] >= 1
            /\ elem \in {"#888", "#eee"}

\* C11 amended: every queued pulse but the first is shown, for the whole of
\* its tick count, in the dark/light state the transmitter wrote when the
\* pulse before it ended (dark for the even pulses, light for the odd ones);
\* the first SYNC pulse runs with no write at all, the element keeping what
\* it showed before the call.
C11_FirstPulseStep(i) ==
    (timer[i] = "armed" /\ toggles[i] = 0 /\ toggles'[i] = 0) => elem' = elem

C11_PulsesButFirstShown ==
    /\ [](\A i \in Tx :
            (timer[i] = "armed" /\ queue[i] # <<>>) =>
                /\ toggles[i] = Showing(i) - 1
                /\ Showing(i) = 1 => ticks[i] = 0
                /\ Showing(i) >= 2 =>
                       /\ elem = IF Showing(i) % 2 = 0 THEN "#888" ELSE "#eee"
                       /\ state[i] = IF Showing(i) % 2 = 0 THEN 1 ELSE 0
                       /\ ticks[i] - toggleAt[i] =
                              built[i][Showing(i)] - queue[i][1])
    /\ [][\A i \in Tx : C11_FirstPulseStep(i)]_vars

\* In the middle of the START pulse, shown light.
C11_Witness ==
    \E i \in Tx :
        /\ timer[i] = "armed" /\ Showing(i) = 15
        /\ queue[i][1] = 1 /\ ticks[i] = 16 /\ elem = "#eee"

\* C12: a tick whose decremented head count is still positive changes that
\* head count and nothing else: the light state, the element, the length of
\* the queue and its other entries, the timer, and everything of any other
\* transmission stay as they were.
C12_HoldStep(i) ==
    (ticks'[i] = ticks[i] + 1 /\ queue[i] # <<>> /\ queue[i][1] - 1 > 0) =>
        /\ queue'[i][1] = queue[i][1] - 1
        /\ Len(queue'[i]) = Len(queue[i])
        /\ Tail(queue'[i]) = Tail(queue[i])
        /\ state' = state
        /\ elem' = elem
        /\ timer' = timer
        /\ checksum' = checksum
        /\ data' = data
        /\ toggles' = toggles /\ neutrals' = neutrals
        /\ \A j \in Tx \ {i} : queue'[j] = queue[j] /\ ticks'[j] = ticks[j]

C12_HoldUnchanged == [][\A i \in Tx : C12_HoldStep(i)]_vars

\* After the first tick inside the END pulse of the empty payload.
C12_Witness ==
    \E i \in Tx :
        /\ timer[i] = "armed" /\ data[i] = <<>>
        /\ queue[i] = <<3>> /\ ticks[i] = toggleAt[i] + 1
        /\ elem = "#888"

\* C13: within one transmission the neutral colour is written exactly once,
\* by a tick that finds the queue empty and clears the timer; after it no tick
\* of this transmission runs, so none of its dark/light writes follows, and
\* the element stays neutral as long as no other transmission writes.
Writing(j) == timer[j] = "armed" /\ toggles[j] > 0

C13_NeutralState ==
    \A i \in Tx :
        /\ neutrals[i] = IF timer[i] = "cleared" THEN 1 ELSE 0
        /\ timer[i] = "cleared" => queue[i] = <<>>
        /\ (timer[i] = "cleared" /\ \A j \in Tx \ {i} : ~Writing(j))
              => elem = Neutral

C13_NeutralStep(i) ==
    /\ neutrals'[i] # neutrals[i] =>
          /\ queue[i] = <<>> /\ timer[i] = "armed"
          /\ timer'[i] = "cleared" /\ elem' = Neutral
          /\ toggles'[i] = toggles[i]
    /\ timer[i] = "cleared" =>
          /\ timer'[i] = "cleared"
          /\ ticks'[i] = ticks[i]
          /\ toggles'[i] = toggles[i]
          /\ neutrals'[i] = neutrals[i]
          /\ state'[i] = state[i]

C13_NeutralOnceAndLast ==
    /\ [] C13_NeutralState
    /\ [][\A i \in Tx : C13_NeutralStep(i)]_vars

\* The transmission has ended and a later call has returned: the element
\* still shows the neutral colour.
C13_Witness ==
    \E i \in Tx :
        /\ timer[i] = "cleared" /\ neutrals[i] = 1 /\ toggles[i] = Len(built[i])
        /\ \E j \in Tx \ {i} : timer[j] = "armed" /\ ticks[j] = 0
        /\ elem = Neutral

\* C14 as claimed: a running transmission can be cancelled from outside by
\* clearing its queue, i.e. while it runs with pulses still queued some step
\* other than its own tick can empty its queue.
C14_ClearedFromOutside(i) ==
    /\ NextOverlap
    /\ ticks'[i] = ticks[i]
    /\ queue'[i] = <<>>

C14_CancellableFromOutside ==
    \A i \in OverlapTx :
        (timer[i] = "armed" /\ queue[i] # <<>>) =>
            ENABLED C14_ClearedFromOutside(i)

\* C14, amended: nothing outside a running transmission changes its queue or
\* stops it.  Its queue changes only in its own ticks, each taking exactly one
\* tick of width off it; its timer is cleared only by its own tick that finds
\* the queue empty, which writes the neutral colour, and by then every queued
\* pulse has had its dark/light write; no dark/light write of it follows.
C14_OwnTicksOnly(i) ==
    /\ (timer[i] = "armed" /\ queue'[i] # queue[i]) =>
          /\ ticks'[i] = ticks[i] + 1
          /\ Sum(queue'[i]) = Sum(queue[i]) - 1
    /\ (timer[i] = "armed" /\ timer'[i] # "armed") =>
          /\ ticks'[i] = ticks[i] + 1
          /\ queue[i] = <<>>
          /\ toggles[i] = Len(built[i])
          /\ ticks[i] = Sum(built[i])
          /\ elem' = Neutral
          /\ timer'[i] = "cleared"
    /\ timer[i] = "cleared" => toggles'[i] = toggles[i]

C14_NotCancellable == [][\A i \in OverlapTx : C14_OwnTicksOnly(i)]_vars

\* One transmission is in the middle of its frame when the other call is
\* made and returns: the running one keeps its queue.
C14_Witness ==
    /\ timer[1] = "armed" /\ ticks[1] = 20 /\ queue[1] # <<>>
    /\ Len(queue[1]) < Len(built[1])
    /\ timer[2] = "armed" /\ ticks[2] = 0 /\ queue[2] = built[2]

\* C15: the receiver is offered at least 8 SYNC intervals before START:
\* no write precedes tick 1, the k-th dark/light write of the preamble falls
\* on tick k for k = 1..14, so the 13 intervals between consecutive writes are
\* exactly 1 tick, and the next interval, up to write 15 at tick 17, is the
\* 3-tick START.
SyncPulses == 14

C15_PreambleState ==
    \A i \in Tx :
        timer[i] # "none" =>
            /\ ticks[i] = 0 => toggles[i] = 0
            /\ ticks[i] \in 1..SyncPulses => /\ toggles[i] = ticks[i]
                                             /\ toggleAt[i] = ticks[i]
            /\ ticks[i] \in (SyncPulses + 1)..(SyncPulses + 2) =>
                   /\ toggles[i] = SyncPulses
                   /\ toggleAt[i] = SyncPulses
            /\ ticks[i] >= SyncPulses + 3 => toggles[i] >= SyncPulses + 1
            /\ SyncPulses - 1 >= 8

C15_PreambleStep(i) ==
    (toggles'[i] = toggles[i] + 1) =>
        /\ toggles'[i] \in 2..SyncPulses => toggleAt'[i] - toggleAt[i] = 1
        /\ toggles'[i] = SyncPulses + 1 => toggleAt'[i] - toggleAt[i] = 3
        /\ toggles'[i] = 1 => toggleAt'[i] = 1

C15_SyncIntervals ==
    /\ [] C15_PreambleState
    /\ [][\A i \in Tx : C15_PreambleStep(i)]_vars

\* The write that ends START has just been made, three ticks after the write
\* that ended the last SYNC pulse.
C15_Witness ==
    \E i \in Tx :
        /\ timer[i] = "armed" /\ toggles[i] = SyncPulses + 1
        /\ toggleAt[i] = SyncPulses + 3 /\ ticks[i] = SyncPulses + 3
        /\ elem = "#888"

\* C16: the output strictly alternates.  The n-th dark/light write of a
\* transmission is #888 for odd n and #eee for even n, so the first is dark
\* and each differs from the one before; the queue holds 8*len(payload)+24
\* pulses, an even number, each pulse gets exactly one dark/light write, and
\* so the write before the neutral one is light.
PulseCount(d) == 8 * Len(d) + 24

C16_WriteStep(i) ==
    /\ toggles'[i] = toggles[i] + 1 =>
          /\ elem' = IF toggles'[i] % 2 = 1 THEN "#888" ELSE "#eee"
          /\ toggles[i] >= 1 => elem' # elem
          /\ elem' \in {"#888", "#eee"}
    /\ (timer[i] = "armed" /\ timer'[i] = "cleared") =>
          /\ elem = "#eee"
          /\ toggles[i] = PulseCount(data[i])

C16_WriteCount ==
    \A i \in Tx :
        /\ timer[i] # "none" =>
              /\ Len(built[i]) = PulseCount(data[i])
              /\ toggles[i] = Len(built[i]) - Len(queue[i])
        /\ timer[i] = "cleared" => /\ toggles[i] = PulseCount(data[i])
                                   /\ toggles[i] % 2 = 0

C17_TickOfOne(i) ==
    (ticks'[i] = ticks[i] + 1) =>
        \A j \in Tx \ {i} :
            /\ queue'[j] = queue[j]
            /\ state'[j] = state[j]
            /\ checksum'[j] = checksum[j]
            /\ timer'[j] = timer[j]
            /\ ticks'[j] = ticks[j]
            /\ toggles'[j] = toggles[j]
            /\ neutrals'[j] = neutrals[j]

C17_WriteOfOne ==
    (elem' # elem) => \E i \in OverlapTx : ticks'[i] = ticks[i] + 1

C17_OwnLength ==
    \A i \in OverlapTx :
        /\ timer[i] = "armed" =>
              /\ ticks[i] <= Sum(built[i])
              /\ ticks[i] + Sum(queue[i]) = Sum(built[i])
              /\ checksum[i] = Sum(data[i]) + (Sum(data[i]) % 256)
        /\ timer[i] = "cleared" => ticks[i] = Sum(built[i]) + 1

C17_BothDone ==
    (\A i \in OverlapTx : timer[i] = "cleared") => elem = Neutral

C17_Independent ==
    /\ [](C17_OwnLength /\ C17_BothDone)
    /\ [][C17_WriteOfOne /\ \A i \in Tx : C17_TickOfOne(i)]_vars
    /\ \A i \in OverlapTx : (timer[i] = "armed") ~> (timer[i] = "cleared")

\* The first transmission has ended with its neutral write while the second,
\* started during it, is still running and has since painted the element.
C17_Witness ==
    /\ timer[1] = "cleared" /\ neutrals[1] = 1
    /\ timer[2] = "armed" /\ queue[2] # <<>>
    /\ toggleAt[2] = ticks[2] /\ ticks[2] < Sum(built[1])
    /\ elem \in {"#888", "#eee"}

====
